---- MODULE Spec2Model ----
(***************************************************************************)
(* A model of `dots`: one run of main gathers the World (World::new),      *)
(* processes it (Config::process with Link::process and Dir::process) and  *)
(* applies the resulting writes (the loop of main).                        *)
(*                                                                         *)
(* Representation.                                                         *)
(*  - A string is a sequence of tokens.  A token is one character with a   *)
(*    meaning of its own ("{", "}", "$", "~", "/", " ", "\n", "'") or a    *)
(*    maximal run of characters that the code never looks into             *)
(*    ("config_dir", "foo.txt", "--path").  The marker token "@dots " of   *)
(*    Marker::MARKER is one token, so is a shell-quoted word.              *)
(*  - A path (PathBuf) is the sequence of its components, the root         *)
(*    component being <<"/">>; a component is a non-empty string.          *)
(*  - Option<T> is a sequence of length 0 (None) or 1 (Some).              *)
(*  - Result<T, E> is a record with field ok.                              *)
(***************************************************************************)
EXTENDS Integers, Sequences, FiniteSets, TLC

VARIABLES
    cwd,          \* std::env::current_dir()
    dotsToml,     \* the file system: what each directory holds as dots.toml
    manifest,     \* the file system: what a readable dots.toml parses to
    pc,           \* where the run is
    root,         \* World::new: config.root
    errors,       \* World::new: errors
    links,        \* World::new: links
    files,        \* World::new: files
    fetched,      \* the URLs requested so far, in order
    visited,      \* the files whose read was attempted so far, in order
    world,        \* what World::new returned: None until it returns
    results,      \* Config::process: what each Link::process / Dir::process gave
    processed,    \* the links and files the process stage has handled, in order
    writes,       \* the writes of the run, in order
    failure,      \* main: the errors of `World::new().and_then(process)`
    logged,       \* what log::error! was called with, in order
    next,         \* the position of the loop in progress
    applied,      \* main: the writes attempted, each with how it ended
    disk,         \* the file system: the destination files and their contents
    exit,         \* main: "running", then "ok" (Ok(())) or "failed" (Err)
    arg,          \* the argument of a single call (the specifications of one function)
    ret,          \* what that call returned
    previous      \* the writes and the file system of the run before this one, if any

vars == <<cwd, dotsToml, manifest, pc, root, errors, links, files, fetched,
          visited, world, results, processed, writes, failure, logged, next, applied,
          disk, exit, arg, ret, previous>>

(***************************************************************************)
(* Bounds of the model                                                     *)
(***************************************************************************)
MaxLinks == 2

MaxDirs == 2

MaxDepth == 2

(***************************************************************************)
(* Option                                                                  *)
(***************************************************************************)
None == <<>>

Some(x) == <<x>>

(***************************************************************************)
(* eyre::Error: what failed (kind) and the strings its message shows       *)
(***************************************************************************)
Error(kind, args) == [kind |-> kind, args |-> args]

Ok(value) == [ok |-> TRUE, value |-> value]

Err(error) == [ok |-> FALSE, error |-> error]

(***************************************************************************)
(* Strings                                                                 *)
(***************************************************************************)
NL == "\n"

CR == "\r"

\* The smallest index i >= from with s[i] = tok, or Len(s) + 1
RECURSIVE IndexFrom(_, _, _)
IndexFrom(s, tok, from) ==
    IF from > Len(s) THEN Len(s) + 1
    ELSE IF s[from] = tok THEN from
    ELSE IndexFrom(s, tok, from + 1)

Contains(s, tok) == IndexFrom(s, tok, 1) <= Len(s)

StartsWith(s, p) == Len(s) >= Len(p) /\ SubSeq(s, 1, Len(p)) = p

\* str::lines: lines end at "\n" or "\r\n", the terminator is not part of the
\* line, and a final line terminator opens no further (empty) line
StripCR(line) ==
    IF line # <<>> /\ line[Len(line)] = CR THEN SubSeq(line, 1, Len(line) - 1)
    ELSE line

RECURSIVE Lines(_)
Lines(s) ==
    IF s = <<>> THEN <<>>
    ELSE LET i == IndexFrom(s, NL, 1) IN
         IF i > Len(s) THEN <<s>>
         ELSE <<StripCR(SubSeq(s, 1, i - 1))>> \o Lines(SubSeq(s, i + 1, Len(s)))

\* [&str]::join / Itertools::join
RECURSIVE Join(_, _)
Join(lines, sep) ==
    IF lines = <<>> THEN <<>>
    ELSE IF Len(lines) = 1 THEN lines[1]
    ELSE lines[1] \o <<sep>> \o Join(Tail(lines), sep)

RECURSIVE Concat(_)
Concat(ss) == IF ss = <<>> THEN <<>> ELSE ss[1] \o Concat(Tail(ss))

(***************************************************************************)
(* Paths                                                                   *)
(***************************************************************************)
RootComponent == <<"/">>

\* Path::new(s): the components of the string s
RECURSIVE Segments(_)
Segments(s) ==
    IF s = <<>> THEN <<>>
    ELSE LET i == IndexFrom(s, "/", 1) IN
         (IF i = 1 THEN <<>> ELSE <<SubSeq(s, 1, i - 1)>>)
            \o (IF i >= Len(s) THEN <<>> ELSE Segments(SubSeq(s, i + 1, Len(s))))

ToPath(s) ==
    IF s # <<>> /\ s[1] = "/" THEN <<RootComponent>> \o Segments(s)
    ELSE Segments(s)

IsAbsolute(p) == p # <<>> /\ p[1] = RootComponent

\* Path::join
PathJoin(p, q) == IF IsAbsolute(q) THEN q ELSE p \o q

\* Path::parent
Parent(p) ==
    IF p = <<>> \/ p = <<RootComponent>> THEN None
    ELSE Some(SubSeq(p, 1, Len(p) - 1))

\* Path::display of a path, as a string
RECURSIVE PathString(_)
PathString(p) ==
    IF p = <<>> THEN <<>>
    ELSE IF p[1] = RootComponent
         THEN <<"/">> \o PathString(Tail(p))
    ELSE IF Len(p) = 1 THEN p[1]
    ELSE p[1] \o <<"/">> \o PathString(Tail(p))

\* PathExt::strip_prefix
StripPrefix(p, prefix) ==
    IF Len(prefix) <= Len(p) /\ SubSeq(p, 1, Len(prefix)) = prefix
    THEN Ok(SubSeq(p, Len(prefix) + 1, Len(p)))
    ELSE Err(Error("failed to strip prefix", <<PathString(prefix), PathString(p)>>))

(***************************************************************************)
(* The platform: etcetera's base strategy and the process environment      *)
(***************************************************************************)
HomeDir == <<"/", "home", "/", "user">>

ConfigDir == HomeDir \o <<"/", ".config">>

DataDir == HomeDir \o <<"/", ".local", "/", "share">>

CacheDir == HomeDir \o <<"/", ".cache">>

\* std::env::var(name): the variables that are set, with their values
EnvVar(name) ==
    IF name = <<"XDG_THEMES">> THEN Some(HomeDir \o <<"/", "themes">>)
    ELSE IF name = <<"BRACED">> THEN Some(<<"{", "x", "}">>)
    ELSE None

(***************************************************************************)
(* OutputPath::from_str                                                    *)
(***************************************************************************)
\* strategy.home_dir().join(s).to_string_lossy()
HomeJoin(rest) ==
    IF rest # <<>> /\ rest[1] = "/" THEN rest
    ELSE HomeDir \o <<"/">> \o rest

ExpandTilde(s) ==
    IF StartsWith(s, <<"~", "/">>) THEN HomeJoin(SubSeq(s, 3, Len(s)))
    ELSE s

\* VariableValue, were an environment variable that is not set left as its name
VariableValueUnset(variable) ==
    IF variable = <<"data_dir">> THEN DataDir
    ELSE IF variable = <<"config_dir">> THEN ConfigDir
    ELSE IF variable = <<"cache_dir">> THEN CacheDir
    ELSE IF StartsWith(variable, <<"$">>)
         THEN LET var == EnvVar(Tail(variable)) IN
              IF var = None THEN Tail(variable) ELSE var[1]
    ELSE <<>>

\* What one `{variable}` is replaced by: its value, or nothing (`continue`)
VariableValue(variable) ==
    IF variable = <<"data_dir">> THEN DataDir
    ELSE IF variable = <<"config_dir">> THEN ConfigDir
    ELSE IF variable = <<"cache_dir">> THEN CacheDir
    ELSE IF StartsWith(variable, <<"$">>)
         THEN LET var == EnvVar(Tail(variable)) IN
              IF var = None THEN <<>> ELSE var[1]
    ELSE <<>>

\* The `while let Some(ch) = chars.next()` loop, from position i on
RECURSIVE Scan(_, _, _)
Scan(s, i, total) ==
    IF i > Len(s) THEN total
    ELSE IF s[i] # "{" THEN Scan(s, i + 1, Append(total, s[i]))
    ELSE LET close == IndexFrom(s, "}", i + 1)
             variable == SubSeq(s, i + 1, close - 1)
         IN  Scan(s, close + 1, total \o VariableValue(variable))

Interpolate(s) == ToPath(Scan(ExpandTilde(s), 1, <<>>))

\* OutputPath::from_str, with whether etcetera finds a base strategy
OutputPathFromStr(s, available) ==
    IF ~available THEN Err(Error("failed to obtain base strategy", <<>>))
    ELSE Ok(Interpolate(s))

(***************************************************************************)
(* Marker                                                                  *)
(***************************************************************************)
MARKER == "@dots "

\* A shell-quoted word of a text and the characters between its quotes
Unquote(word) ==
    IF word = "'{config_dir}/gitui/theme.ron'"
    THEN <<"{", "config_dir", "}", "/", "gitui", "/", "theme", ".ron">>
    ELSE IF word = "'~/theme.ron'" THEN <<"~", "/", "theme", ".ron">>
    ELSE <<word>>

\* shellwords::split: the words of s, separated by blanks; a quote that is
\* never closed is an error (MismatchedQuotes)
RECURSIVE Words(_)
Words(s) ==
    IF s = <<>> THEN <<>>
    ELSE IF s[1] = " " THEN Words(Tail(s))
    ELSE <<Unquote(s[1])>> \o Words(Tail(s))

ShellSplit(s) ==
    IF Contains(s, "'") THEN Err(Error("mismatched quotes", <<s>>))
    ELSE Ok(Words(s))

\* Marker::try_parse_from (clap): the first word is the name of the binary,
\* the words after it are the arguments; `--path <PATH>` is the one option
TryParseFrom(words) ==
    LET args == IF words = <<>> THEN <<>> ELSE Tail(words) IN
    IF args = <<>> THEN Ok([path |-> None])
    ELSE IF Len(args) = 2 /\ args[1] = <<"--path">>
         THEN Ok([path |-> Some(Interpolate(args[2]))])
    ELSE Err(Error("invalid marker arguments", args))

\* <Marker as FromStr>::from_str
MarkerFromStr(s) ==
    LET split == ShellSplit(s) IN
    IF split.ok THEN TryParseFrom(split.value) ELSE split

(***************************************************************************)
(* commented::comment(text, path): the text as one comment line of the     *)
(* language the extension of path names                                    *)
(***************************************************************************)
Extension(path) ==
    IF path = <<>> THEN <<>>
    ELSE LET name == path[Len(path)] IN name[Len(name)]

BlockExtensions == { ".css", ".ron" }

SlashExtensions == { ".rs" }

Comment(text, path) ==
    IF Extension(path) \in BlockExtensions
    THEN <<"/*", " ">> \o text \o <<" ", "*/">>
    ELSE IF Extension(path) \in SlashExtensions THEN <<"//", " ">> \o text
    ELSE <<"#", " ">> \o text

(***************************************************************************)
(* sha256::digest                                                          *)
(***************************************************************************)
Digest(contents) == <<"sha256:">> \o contents

(***************************************************************************)
(* Link::process, after the fetch: the path and contents it writes         *)
(***************************************************************************)
\* The character ` as a token
BACKQUOTE == "backquote"

\* The four lines of the header, each commented and ended by a line break
Header(url, path) ==
    Concat([i \in 1..4 |->
        Comment(<< <<"@generated by ", BACKQUOTE, MARKER, BACKQUOTE>>,
                   <<"Do not edit by hand.">>,
                   <<>>,
                   <<"downloaded from: ", url>> >>[i], path) \o <<NL>>])

FirstLineHasMarker(contents) ==
    Lines(contents) # <<>> /\ Contains(Lines(contents)[1], MARKER)

\* The block handed to fs::write
Written(contents, url, path) ==
    LET marker == IF FirstLineHasMarker(contents)
                  THEN Lines(contents)[1] \o <<NL>> ELSE <<>>
        rest == IF FirstLineHasMarker(contents)
                THEN Join(Tail(Lines(contents)), NL) ELSE contents
    IN  marker \o Header(url, path) \o rest

\* LinkProcess, were the digest never compared
LinkProcessUnchecked(rootPath, link) ==
    LET path == PathJoin(rootPath, link.path)
        marker == IF link.marker = None THEN <<>>
                  ELSE Comment(<<MARKER>> \o link.marker[1], path) \o <<NL>>
        contents == marker \o link.contents
    IN  Ok([path |-> path, contents |-> Written(contents, link.url, path)])

LinkProcess(rootPath, link) ==
    LET actual_sha256 == Digest(link.contents) IN
    IF link.sha256 # None /\ actual_sha256 # link.sha256[1]
    THEN Err(Error("hash mismatch",
                   << <<link.url>>, actual_sha256, link.sha256[1] >>))
    ELSE LET path == PathJoin(rootPath, link.path)
             marker == IF link.marker = None THEN <<>>
                       ELSE Comment(<<MARKER>> \o link.marker[1], path) \o <<NL>>
             contents == marker \o link.contents
         IN  Ok([path |-> path, contents |-> Written(contents, link.url, path)])

(***************************************************************************)
(* Handlebars: register_template_string and render with no variables       *)
(***************************************************************************)
\* "{{" opens an expression that is never closed; "{{name}}" is an expression
Render(template) ==
    IF Contains(template, "{{")
    THEN Err(Error("failed to parse template", <<template>>))
    ELSE Ok(SelectSeq(template, LAMBDA tok : tok # "{{name}}"))

(***************************************************************************)
(* Dir::process, for one file, after the read: the path and contents       *)
(***************************************************************************)
\* The marker of the first line: Some(path) when the line holds the token,
\* the text after it parses and names a path
MarkerPath(file_contents) ==
    IF Lines(file_contents) = <<>> THEN None
    ELSE LET first_line == Lines(file_contents)[1]
             marker_start_pos == IndexFrom(first_line, MARKER, 1)
         IN  IF marker_start_pos > Len(first_line) THEN None
             ELSE LET args == MarkerFromStr(
                          SubSeq(first_line, marker_start_pos + 1, Len(first_line)))
                  IN  IF args.ok THEN args.value.path ELSE None

StripFirstLine(file_contents) == Join(Tail(Lines(file_contents)), ",")

\* DirProcessFile, were a marker that fails to parse returned as an error
DirProcessFileStrict(rootPath, file) ==
    LET relative_location == StripPrefix(file.old_location, rootPath)
        first_line == IF Lines(file.contents) = <<>> THEN <<>> ELSE Lines(file.contents)[1]
        marker_start_pos == IndexFrom(first_line, MARKER, 1)
        args == MarkerFromStr(SubSeq(first_line, marker_start_pos + 1, Len(first_line)))
    IN  IF ~relative_location.ok THEN relative_location
        ELSE IF marker_start_pos <= Len(first_line) /\ ~args.ok THEN args
        ELSE LET marker == MarkerPath(file.contents)
                 contents == IF marker # None THEN StripFirstLine(file.contents)
                             ELSE file.contents
                 new_location == IF marker # None THEN marker[1]
                                 ELSE PathJoin(file.output, relative_location.value)
                 rendered == Render(contents)
             IN  IF rendered.ok
                 THEN Ok([path |-> new_location, contents |-> rendered.value])
                 ELSE rendered

DirProcessFile(rootPath, file) ==
    LET relative_location == StripPrefix(file.old_location, rootPath) IN
    IF ~relative_location.ok THEN relative_location
    ELSE LET marker == MarkerPath(file.contents)
             contents == IF marker # None THEN StripFirstLine(file.contents)
                         ELSE file.contents
             new_location == IF marker # None THEN marker[1]
                             ELSE PathJoin(file.output, relative_location.value)
             rendered == Render(contents)
         IN  IF rendered.ok
             THEN Ok([path |-> new_location, contents |-> rendered.value])
             ELSE rendered

(***************************************************************************)
(* IteratorExt::try_collect_all and Itertools::partition_result            *)
(***************************************************************************)
Oks(rs) == [i \in 1..Len(SelectSeq(rs, LAMBDA r : r.ok)) |->
               SelectSeq(rs, LAMBDA r : r.ok)[i].value]

Errs(rs) == [i \in 1..Len(SelectSeq(rs, LAMBDA r : ~r.ok)) |->
               SelectSeq(rs, LAMBDA r : ~r.ok)[i].error]

\* self.filter_map(Result::err).collect()
FilterMapErr(rs) == Errs(rs)

\* The `while let Some(res) = self.next()` loop, from position i on
RECURSIVE TryCollectAllFrom(_, _, _)
TryCollectAllFrom(rs, i, oks) ==
    IF i > Len(rs) THEN Ok(oks)
    ELSE IF rs[i].ok THEN TryCollectAllFrom(rs, i + 1, Append(oks, rs[i].value))
    ELSE Err(<<rs[i].error>> \o FilterMapErr(SubSeq(rs, i + 1, Len(rs))))

TryCollectAll(rs) == TryCollectAllFrom(rs, 1, <<>>)

\* partition_result: (oks, errs)
PartitionResult(rs) == [oks |-> Oks(rs), errs |-> Errs(rs)]

(***************************************************************************)
(* stdx::traverse_upwards, and Iterator::find on it                        *)
(***************************************************************************)
\* iter::from_fn: the directories yielded once current_dir is Some(d)
RECURSIVE FromFn(_)
FromFn(d) ==
    LET current_dir == Parent(d) IN
    IF current_dir = None THEN <<>>
    ELSE <<current_dir[1]>> \o FromFn(current_dir[1])

\* TraverseUpwards, were the start directory itself left out
TraverseUpwardsFromParent(base_dir) == FromFn(base_dir)

TraverseUpwards(base_dir) == <<base_dir>> \o FromFn(base_dir)

\* Iterator::find: the first element of dirs that holds a dots.toml
FindRoot(dirs, tree) ==
    LET hits == SelectSeq(dirs, LAMBDA dir : tree[dir] # "absent") IN
    IF hits = <<>> THEN None ELSE Some(hits[1])

(***************************************************************************)
(* The world outside: directories, the network, the files under the root   *)
(***************************************************************************)
DirNames == <<"home", "user", "dots", "nested">>

DirAtDepth(d) == <<RootComponent>> \o [i \in 1..d |-> <<DirNames[i]>>]

AllDirs == { DirAtDepth(d) : d \in 0..MaxDepth }

Status == { "absent", "ok", "unreadable", "invalid" }

\* ureq::get(url).call()?.body_mut().read_to_string()
Fetch(url) ==
    IF url = "https://down" THEN Err(Error("fetch failed", << <<url>> >>))
    ELSE Ok(<<"a", NL, "b", NL>>)

\* The declarations a manifest is made of
LinkDecl(url, sha256) ==
    [url |-> url, path |-> << <<"nushell">>, <<"theme", ".nu">> >>,
     sha256 |-> sha256, marker |-> None]

LinkDecls ==
    { LinkDecl("https://up", None),
      LinkDecl("https://down", None),
      LinkDecl("https://up", Some(Digest(<<"a", NL, "b", NL>>))),
      LinkDecl("https://up", Some(Digest(<<"old">>))) }

DirDecl(input, output) == [input |-> << <<input>> >>, output |-> Interpolate(output)]

DirDecls ==
    { DirDecl("configs", <<"{", "config", "}">>),
      DirDecl("secret", <<"{", "config_dir", "}">>),
      DirDecl("locked", <<"{", "data_dir", "}">>),
      DirDecl("templates", <<"~", "/", "out">>),
      DirDecl("nushell", <<"{", "cache_dir", "}">>) }

\* One result of WalkDir: a walk error, a directory, or a file (with what
\* fs::read_to_string gives for it: None when it fails)
Entry(kind, name, contents) == [kind |-> kind, name |-> name, contents |-> contents]

\* WalkDir::new(root.join(input)).into_iter()
WalkDir(input) ==
    <<Entry("dir", <<>>, None)>> \o
    (IF input = << <<"configs">> >>
     THEN << Entry("file", << <<"bar", ".txt">> >>, Some(<<"bar">>)),
             Entry("file", << <<"foo", ".txt">> >>, Some(<<"foo">>)) >>
     ELSE IF input = << <<"secret">> >>
     THEN << Entry("file", << <<"key">> >>, None),
             Entry("file", << <<"note">> >>, Some(<<"n", NL>>)) >>
     ELSE IF input = << <<"locked">> >>
     THEN << Entry("error", << <<"private">> >>, None),
             Entry("file", << <<"open">> >>, Some(<<"o", NL>>)) >>
     ELSE IF input = << <<"templates">> >>
     THEN << Entry("file", << <<"bad">> >>, Some(<<"{{", "x", NL>>)),
             Entry("file", << <<"good">> >>, Some(<<"g", NL>>)) >>
     ELSE <<>>)

BSeq(S, n) == UNION { [1..k -> S] : k \in 0..n }

Manifests == [links : BSeq(LinkDecls, MaxLinks), dirs : BSeq(DirDecls, MaxDirs)]

EmptyManifest == [links |-> <<>>, dirs |-> <<>>]

(***************************************************************************)
(* World::new                                                              *)
(***************************************************************************)
\* The closure of `.map(move |file| ...)`: one file of the walk of a Dir,
\* the `at`-th of config.dirs
ReadFile(rootPath, at, decl, entry) ==
    LET old_location == PathJoin(PathJoin(rootPath, decl.input), entry.name) IN
    IF entry.contents = None
    THEN Err(Error("failed to read path", <<PathString(old_location)>>))
    ELSE Ok([old_location |-> old_location, contents |-> entry.contents[1],
             output |-> decl.output, input |-> decl.input, dir |-> at])

\* `.into_iter().flatten().filter(|dir_entry| dir_entry.file_type().is_file())`
WalkedFiles(input) == SelectSeq(WalkDir(input), LAMBDA entry : entry.kind = "file")

\* The results of one Dir of the flat_map
GatherDir(rootPath, at, decl) ==
    [i \in 1..Len(WalkedFiles(decl.input)) |->
        ReadFile(rootPath, at, decl, WalkedFiles(decl.input)[i])]

ResolveRoot ==
    /\ pc = "resolve"
    /\ IF cwd = None
       THEN /\ failure' = <<Error("failed to obtain current directory", <<>>)>>
            /\ world' = Some(Err(failure'))
            /\ pc' = "report"
            /\ root' = root
       ELSE LET found == FindRoot(TraverseUpwards(cwd[1]), dotsToml) IN
            IF found = None
            THEN /\ failure' = <<Error("failed to find directory that contains a dots.toml",
                                       <<PathString(cwd[1])>>)>>
                 /\ world' = Some(Err(failure'))
                 /\ pc' = "report"
                 /\ root' = root
            ELSE /\ root' = found[1]
                 /\ pc' = "load"
                 /\ UNCHANGED <<failure, world>>
    /\ UNCHANGED <<previous, cwd, dotsToml, manifest, errors, links, files, fetched, visited,
                   results, processed, writes, logged, next, applied, disk, exit,
                   arg, ret>>

LoadConfig ==
    /\ pc = "load"
    /\ IF dotsToml[root] = "unreadable"
       THEN /\ failure' = <<Error("failed to read config file", <<>>)>>
            /\ world' = Some(Err(failure'))
            /\ pc' = "report"
       ELSE IF dotsToml[root] = "invalid"
       THEN /\ failure' = <<Error("failed to parse config file", <<>>)>>
            /\ world' = Some(Err(failure'))
            /\ pc' = "report"
       ELSE /\ UNCHANGED <<failure, world>>
            /\ pc' = "fetch"
    /\ next' = 1
    /\ UNCHANGED <<previous, cwd, dotsToml, manifest, root, errors, links, files, fetched,
                   visited, results, processed, writes, logged, applied, disk,
                   exit, arg, ret>>

\* FetchLink, were the links given up at the first fetch that fails
FetchLinkFailFast ==
    /\ pc = "fetch"
    /\ next <= Len(manifest.links)
    /\ LET decl == manifest.links[next]
           body == Fetch(decl.url)
       IN  /\ fetched' = Append(fetched, decl.url)
           /\ IF body.ok
              THEN /\ links' = Append(links, [url |-> decl.url, contents |-> body.value,
                                              path |-> decl.path, sha256 |-> decl.sha256,
                                              marker |-> decl.marker])
                   /\ errors' = errors
                   /\ next' = next + 1
              ELSE /\ errors' = Append(errors, body.error)
                   /\ links' = links
                   /\ next' = Len(manifest.links) + 1
    /\ UNCHANGED <<previous, cwd, dotsToml, manifest, pc, root, files, visited, world, results,
                   processed, writes, failure, logged, applied, disk, exit, arg, ret>>

\* One link of `config.links.into_iter().map(...)`
FetchLink ==
    /\ pc = "fetch"
    /\ next <= Len(manifest.links)
    /\ LET decl == manifest.links[next]
           body == Fetch(decl.url)
       IN  /\ fetched' = Append(fetched, decl.url)
           /\ IF body.ok
              THEN /\ links' = Append(links, [url |-> decl.url, contents |-> body.value,
                                              path |-> decl.path, sha256 |-> decl.sha256,
                                              marker |-> decl.marker])
                   /\ errors' = errors
              ELSE /\ errors' = Append(errors, body.error)
                   /\ links' = links
    /\ next' = next + 1
    /\ UNCHANGED <<previous, cwd, dotsToml, manifest, pc, root, files, visited, world, results,
                   processed, writes, failure, logged, applied, disk, exit, arg, ret>>

\* `.partition_result()` and `errors.extend(errs)` of the links
LinksFetched ==
    /\ pc = "fetch"
    /\ next > Len(manifest.links)
    /\ pc' = "walk"
    /\ next' = 1
    /\ UNCHANGED <<previous, cwd, dotsToml, manifest, root, errors, links, files, fetched,
                   visited, world, results, processed, writes, failure, logged, applied,
                   disk, exit, arg, ret>>

\* The elements of a finite set, in some order
RECURSIVE SetToSeq(_)
SetToSeq(S) ==
    IF S = {} THEN <<>>
    ELSE LET x == CHOOSE x \in S : TRUE IN <<x>> \o SetToSeq(S \ { x })

\* The files earlier writes left under root.join(input), which the walk
\* meets after those that were there before
WrittenUnder(rootPath, input, files_) ==
    SetToSeq({ f \in files_ : StripPrefix(f.path, PathJoin(rootPath, input)).ok })

\* The results of one Dir of the flat_map for the files earlier writes left
GatherWritten(rootPath, at, decl, files_) ==
    [i \in 1..Len(WrittenUnder(rootPath, decl.input, files_)) |->
        LET f == WrittenUnder(rootPath, decl.input, files_)[i] IN
        ReadFile(rootPath, at, decl,
                 Entry("file", StripPrefix(f.path, PathJoin(rootPath, decl.input)).value,
                       Some(f.contents)))]

\* One Dir of `config.dirs.into_iter().flat_map(...)`
WalkOneDir ==
    /\ pc = "walk"
    /\ next <= Len(manifest.dirs)
    /\ LET decl == manifest.dirs[next]
           read == GatherDir(root, next, decl)
           written == GatherWritten(root, next, decl, disk)
       IN  /\ files' = files \o PartitionResult(read \o written).oks
           /\ errors' = errors \o PartitionResult(read \o written).errs
           /\ visited' = visited \o
                  [i \in 1..Len(read) |->
                      PathJoin(PathJoin(root, decl.input), WalkedFiles(decl.input)[i].name)]
                  \o [i \in 1..Len(written) |->
                         WrittenUnder(root, decl.input, disk)[i].path]
    /\ next' = next + 1
    /\ UNCHANGED <<previous, cwd, dotsToml, manifest, pc, root, links, fetched, world, results,
                   processed, writes, failure, logged, applied, disk, exit, arg, ret>>

\* `if !errors.is_empty() { return Err(errors); }` and `Ok(Self { .. })`
WorldNewReturn ==
    /\ pc = "walk"
    /\ next > Len(manifest.dirs)
    /\ IF errors # <<>>
       THEN /\ world' = Some(Err(errors))
            /\ failure' = errors
            /\ pc' = "report"
       ELSE /\ world' = Some(Ok([root |-> root, links |-> links, files |-> files]))
            /\ failure' = failure
            /\ pc' = "link"
    /\ next' = 1
    /\ UNCHANGED <<previous, cwd, dotsToml, manifest, root, errors, links, files, fetched,
                   visited, results, processed, writes, logged, applied, disk,
                   exit, arg, ret>>

(***************************************************************************)
(* Config::process, on the World                                           *)
(***************************************************************************)
Item(kind, at) == [kind |-> kind, at |-> at]

\* One link of `self.links.into_iter().map(|link| link.process(&self.root))`
ProcessLink ==
    /\ pc = "link"
    /\ next <= Len(links)
    /\ LET done == LinkProcess(root, links[next]) IN
       /\ results' = Append(results, IF done.ok THEN Ok(<<>>) ELSE done)
       /\ writes' = IF done.ok THEN Append(writes, done.value) ELSE writes
    /\ processed' = Append(processed, Item("link", next))
    /\ next' = next + 1
    /\ UNCHANGED <<previous, cwd, dotsToml, manifest, pc, root, errors, links, files, fetched,
                   visited, world, failure, logged, applied, disk, exit, arg, ret>>

\* The `.pipe(|(_, errors)| ...)?` of the links
LinksProcessed ==
    /\ pc = "link"
    /\ next > Len(links)
    /\ logged' = logged \o PartitionResult(results).errs
    /\ IF PartitionResult(results).errs = <<>>
       THEN /\ failure' = <<Error("encountered errors when downloading links", <<>>)>>
            /\ pc' = "report"
       ELSE /\ failure' = failure
            /\ pc' = "dir"
    /\ results' = <<>>
    /\ next' = 1
    /\ UNCHANGED <<previous, cwd, dotsToml, manifest, root, errors, links, files, fetched,
                   visited, world, processed, writes, applied, disk, exit, arg, ret>>

\* The indices in World::files of the files of the `at`-th Dir
RECURSIVE FilesOf(_, _, _)
FilesOf(fs, at, i) ==
    IF i > Len(fs) THEN <<>>
    ELSE (IF fs[i].dir = at THEN <<i>> ELSE <<>>) \o FilesOf(fs, at, i + 1)

\* Iterator::try_for_each over the files `ids` of one Dir, from position i on:
\* the files handled, the writes made, and the Result
RECURSIVE TryForEach(_, _, _, _, _)
TryForEach(rootPath, fs, ids, i, acc) ==
    IF i > Len(ids) THEN [acc EXCEPT !.result = Ok(<<>>)]
    ELSE LET done == DirProcessFile(rootPath, fs[ids[i]])
             handled == Append(acc.handled, Item("file", ids[i]))
         IN  IF done.ok
             THEN TryForEach(rootPath, fs, ids, i + 1,
                             [acc EXCEPT !.handled = handled,
                                         !.writes = Append(acc.writes, done.value)])
             ELSE [acc EXCEPT !.handled = handled, !.result = done]

DirProcess(rootPath, fs, at) ==
    TryForEach(rootPath, fs, FilesOf(fs, at, 1), 1,
               [handled |-> <<>>, writes |-> <<>>, result |-> Ok(<<>>)])

\* One Dir of `self.dirs.into_iter().map(|dir| dir.process(&self.root))`
ProcessDir ==
    /\ pc = "dir"
    /\ next <= Len(manifest.dirs)
    /\ LET done == DirProcess(root, files, next) IN
       /\ results' = Append(results, done.result)
       /\ writes' = writes \o done.writes
       /\ processed' = processed \o done.handled
    /\ next' = next + 1
    /\ UNCHANGED <<previous, cwd, dotsToml, manifest, pc, root, errors, links, files, fetched,
                   visited, world, failure, logged, applied, disk, exit, arg, ret>>

\* The `.pipe(|(_, errors)| ...)?` of the dirs and `Ok(())`
DirsProcessed ==
    /\ pc = "dir"
    /\ next > Len(manifest.dirs)
    /\ logged' = logged \o PartitionResult(results).errs
    /\ IF PartitionResult(results).errs # <<>>
       THEN /\ failure' = <<Error("encountered errors when trying to proccess directories",
                                  <<>>)>>
            /\ pc' = "report"
       ELSE /\ failure' = failure
            /\ pc' = "apply"
    /\ next' = 1
    /\ UNCHANGED <<previous, cwd, dotsToml, manifest, root, errors, links, files, fetched,
                   visited, world, results, processed, writes, applied, disk, exit, arg, ret>>

(***************************************************************************)
(* main                                                                    *)
(***************************************************************************)
\* `.map_err(|errs| { for err in errs { log::error!(..) } eyre!(..) })?`
ReportErrors ==
    /\ pc = "report"
    /\ logged' = logged \o failure
    /\ exit' = "failed"
    /\ pc' = "done"
    /\ UNCHANGED <<previous, cwd, dotsToml, manifest, root, errors, links, files, fetched,
                   visited, world, results, processed, writes, failure, next, applied,
                   disk, arg, ret>>

\* How the three steps of one write may end: each step is an operation of
\* the file system, which either fails or not
Outcomes(path) ==
    IF Parent(path) = None THEN { "failed to remove file", "failed to obtain parent" }
    ELSE { "failed to remove file", "failed to create directory", "failed to write",
           "wrote" }

\* The file system after one write that ended with `outcome`
DiskAfter(files_, write, outcome) ==
    IF outcome = "failed to remove file" THEN files_
    ELSE { f \in files_ : f.path # write.path }
            \cup (IF outcome = "wrote" THEN { write } ELSE {})

\* One turn of `for dots::WritePath { path, contents } in writes`
ApplyWrite ==
    /\ pc = "apply"
    /\ next <= Len(writes)
    /\ \E outcome \in Outcomes(writes[next].path) :
          /\ applied' = Append(applied, [path |-> writes[next].path, outcome |-> outcome])
          /\ disk' = DiskAfter(disk, writes[next], outcome)
          /\ IF outcome = "wrote"
             THEN /\ next' = next + 1
                  /\ UNCHANGED <<pc, exit, failure>>
             ELSE /\ failure' = <<Error(outcome, <<PathString(writes[next].path)>>)>>
                  /\ exit' = "failed"
                  /\ pc' = "done"
                  /\ next' = next
    /\ UNCHANGED <<previous, cwd, dotsToml, manifest, root, errors, links, files, fetched,
                   visited, world, results, processed, writes, logged, arg, ret>>

\* The `Ok(())` that ends main
Return ==
    /\ pc = "apply"
    /\ next > Len(writes)
    /\ exit' = "ok"
    /\ pc' = "done"
    /\ UNCHANGED <<previous, cwd, dotsToml, manifest, root, errors, links, files, fetched,
                   visited, world, results, processed, writes, failure, logged, next,
                   applied, disk, arg, ret>>

(***************************************************************************)
(* One run of main                                                         *)
(***************************************************************************)
\* The trees of dots.toml files the runs start from: the status of the file
\* in the start directory and in its parent
Tree(here, above) ==
    [dir \in AllDirs |->
        IF dir = DirAtDepth(MaxDepth) THEN here
        ELSE IF Some(dir) = Parent(DirAtDepth(MaxDepth)) THEN above
        ELSE "absent"]

Trees ==
    { Tree("ok", "absent"), Tree("absent", "ok"), Tree("ok", "invalid"),
      Tree("absent", "absent"), Tree("unreadable", "ok"), Tree("invalid", "ok") }

\* Whether World::new gets to a parsed manifest
Loads(dir, tree) ==
    /\ dir # None
    /\ FindRoot(TraverseUpwards(dir[1]), tree) # None
    /\ tree[FindRoot(TraverseUpwards(dir[1]), tree)[1]] = "ok"

Idle ==
    /\ root = <<>>
    /\ errors = <<>>
    /\ links = <<>>
    /\ files = <<>>
    /\ fetched = <<>>
    /\ visited = <<>>
    /\ world = None
    /\ results = <<>>
    /\ processed = <<>>
    /\ writes = <<>>
    /\ failure = <<>>
    /\ logged = <<>>
    /\ next = 1
    /\ applied = <<>>
    /\ disk = {}
    /\ exit = "running"
    /\ previous = None

Init ==
    /\ cwd \in { None, Some(DirAtDepth(MaxDepth)) }
    /\ dotsToml \in Trees
    /\ manifest \in Manifests
    /\ cwd = None => dotsToml = Tree("absent", "absent")
    /\ ~Loads(cwd, dotsToml) => manifest = EmptyManifest
    /\ pc = "resolve"
    /\ Idle
    /\ arg = <<>>
    /\ ret = <<>>

Next ==
    \/ ResolveRoot
    \/ LoadConfig
    \/ FetchLink
    \/ LinksFetched
    \/ WalkOneDir
    \/ WorldNewReturn
    \/ ProcessLink
    \/ LinksProcessed
    \/ ProcessDir
    \/ DirsProcessed
    \/ ReportErrors
    \/ ApplyWrite
    \/ Return

Spec == Init /\ [][Next]_vars

(***************************************************************************)
(* The manifest resolution of World::new alone, from every start directory *)
(* and every tree of dots.toml files                                       *)
(***************************************************************************)
InitRoot ==
    /\ cwd \in { None } \cup { Some(dir) : dir \in AllDirs }
    /\ dotsToml \in [AllDirs -> Status]
    /\ manifest = EmptyManifest
    /\ pc = "resolve"
    /\ Idle
    /\ arg = <<>>
    /\ ret = <<>>

NextRoot ==
    \/ ResolveRoot
    \/ LoadConfig

SpecRoot == InitRoot /\ [][NextRoot]_vars

(***************************************************************************)
(* Single calls of Dir::process (one file) and of Link::process            *)
(***************************************************************************)
\* A quoted path template, as a marker holds it
Q1 == "'{config_dir}/gitui/theme.ron'"

Q2 == "'~/theme.ron'"

\* First lines of a text, and what may follow them
FirstLines ==
    { <<>>,
      <<"a">>,
      <<MARKER, "--path", " ", Q1>>,
      <<"#", " ", MARKER, "--path", " ", Q2>>,
      <<"/*", " ", MARKER, "--path", " ", Q1, " ", "*/">>,
      <<"#", " ", MARKER, "dots", " ", "--path", " ", Q1>>,
      <<MARKER, "dots", " ", "--path">>,
      <<MARKER, "dots", " ", "'">>,
      <<"#", " ", MARKER, "dots">> }

Bodies ==
    { <<>>,
      <<NL>>,
      <<NL, "b">>,
      <<NL, "b", NL>>,
      <<NL, "b", NL, "c", NL>>,
      <<CR, NL, "b", CR, NL, "c">>,
      <<NL, "{{name}}", NL>>,
      <<NL, "{{", NL>> }

Texts == { first \o body : first \in FirstLines, body \in Bodies }

StartRoot == DirAtDepth(MaxDepth)

\* The files World::new may hand over: a file `name` under a Dir's input
FileCalls ==
    { [rootPath |-> StartRoot,
       file |-> ReadFile(StartRoot, 1, decl, Entry("file", name, Some(text))).value] :
         decl \in { DirDecl("configs", <<"{", "config", "}">>),
                    DirDecl("themes", <<"{", "config_dir", "}", "/", "themes">>) },
         name \in { << <<"foo", ".txt">> >>, << <<"gitui">>, <<"theme", ".ron">> >> },
         text \in Texts }

\* The links World::new may hand over
LinkCalls ==
    { [rootPath |-> StartRoot,
       link |-> [url |-> "https://up", contents |-> text, path |-> path,
                 sha256 |-> sha256, marker |-> marker]] :
         text \in Texts,
         path \in { << <<"nushell">>, <<"theme", ".nu">> >>,
                    << <<"gitui">>, <<"theme", ".ron">> >> },
         sha256 \in { None, Some(Digest(<<"a">>)) },
         marker \in { None, Some(<<"--path", " ", Q1>>) } }

InitCall(calls) ==
    /\ cwd = None
    /\ dotsToml = Tree("absent", "absent")
    /\ manifest = EmptyManifest
    /\ pc = "call"
    /\ Idle
    /\ arg \in calls
    /\ ret = <<>>

CallDirProcessFile ==
    /\ pc = "call"
    /\ ret' = DirProcessFile(arg.rootPath, arg.file)
    /\ pc' = "returned"
    /\ UNCHANGED <<previous, cwd, dotsToml, manifest, root, errors, links, files, fetched,
                   visited, world, results, processed, writes, failure, logged,
                   next, applied, disk, exit, arg>>

CallLinkProcess ==
    /\ pc = "call"
    /\ ret' = LinkProcess(arg.rootPath, arg.link)
    /\ pc' = "returned"
    /\ UNCHANGED <<previous, cwd, dotsToml, manifest, root, errors, links, files, fetched,
                   visited, world, results, processed, writes, failure, logged,
                   next, applied, disk, exit, arg>>

InitFile == InitCall(FileCalls)

NextFile == CallDirProcessFile

SpecFile == InitFile /\ [][NextFile]_vars

InitLink == InitCall(LinkCalls)

NextLink == CallLinkProcess

SpecLink == InitLink /\ [][NextLink]_vars

(***************************************************************************)
(* What the claims speak of                                                *)
(***************************************************************************)
\* The positions of the failed results of rs, in order
Failing(rs) == SelectSeq([i \in 1..Len(rs) |-> i], LAMBDA i : ~rs[i].ok)

Succeeding(rs) == SelectSeq([i \in 1..Len(rs) |-> i], LAMBDA i : rs[i].ok)

\* What each declared link gives when fetched, in the order of the manifest
LinkResults(m) ==
    [i \in 1..Len(m.links) |->
        IF Fetch(m.links[i].url).ok
        THEN Ok([url |-> m.links[i].url, contents |-> Fetch(m.links[i].url).value,
                 path |-> m.links[i].path, sha256 |-> m.links[i].sha256,
                 marker |-> m.links[i].marker])
        ELSE Fetch(m.links[i].url)]

\* What each file under each declared dir gives when read, in the order of the walk
FileResults(m, rootPath) ==
    Concat([i \in 1..Len(m.dirs) |-> GatherDir(rootPath, i, m.dirs[i])])

\* The paths of the files under each declared dir
FilePaths(m, rootPath) ==
    Concat([i \in 1..Len(m.dirs) |->
        [j \in 1..Len(WalkedFiles(m.dirs[i].input)) |->
            PathJoin(PathJoin(rootPath, m.dirs[i].input),
                     WalkedFiles(m.dirs[i].input)[j].name)]])

\* World::new has returned, having loaded the manifest
Gathered == world # None /\ Loads(cwd, dotsToml)

\* C1: once the manifest is loaded, World::new requests every declared link and
\* reads every file under every declared dir; it returns Ok(World) with all
\* links and all files exactly when no fetch and no read failed, and otherwise
\* Err with the error of every failed item, in input order, and no World.
\* try_collect_all gives the same verdict on the same results: all Ok values in
\* order when there is no Err, otherwise all Err values in order.
C1_CollectAll ==
    Gathered =>
        LET ls == LinkResults(manifest)
            fs == FileResults(manifest, root)
            rs == ls \o fs
        IN  /\ fetched = [i \in 1..Len(manifest.links) |-> manifest.links[i].url]
            /\ visited = FilePaths(manifest, root)
            /\ world[1].ok <=> Failing(rs) = <<>>
            /\ world[1].ok =>
                   /\ world[1].value.links = [i \in 1..Len(ls) |-> ls[i].value]
                   /\ world[1].value.files = [i \in 1..Len(fs) |-> fs[i].value]
                   /\ TryCollectAll(rs) = Ok([i \in 1..Len(rs) |-> rs[i].value])
            /\ ~world[1].ok =>
                   /\ world[1].error = [k \in 1..Len(Failing(rs)) |-> rs[Failing(rs)[k]].error]
                   /\ TryCollectAll(rs) = Err(world[1].error)

\* C1 witness: World::new returned three errors, those of two links and of one
\* file, having read a file after the one that failed
C1_Witness ==
    /\ Gathered
    /\ ~world[1].ok
    /\ Len(world[1].error) = 3
    /\ Len(fetched) = 2
    /\ files # <<>>

\* A link whose declared sha256 is not the digest of what was fetched
Stale(link) == link.sha256 # None /\ link.sha256[1] # Digest(link.contents)

Plain(text) ==
    /\ ~FirstLineHasMarker(text)
    /\ ~Contains(text, "{{")
    /\ ~Contains(text, "{{name}}")

\* The path of a gathered file relative to the input of its Dir
RelativeToInput(rootPath, file) ==
    StripPrefix(file.old_location, PathJoin(rootPath, file.input)).value

\* C3: a file with no marker line and no template syntax gives one write, at
\* the output of its Dir joined with the path of the file relative to the
\* input of the Dir, with the content of the file unchanged.
C3_MirrorsInput ==
    (pc = "returned" /\ Plain(arg.file.contents)) =>
        ret = Ok([path |-> PathJoin(arg.file.output, RelativeToInput(arg.rootPath, arg.file)),
                  contents |-> arg.file.contents])

\* The text after the first line and its line break
AfterFirstLine(text) == SubSeq(text, IndexFrom(text, NL, 1) + 1, Len(text))

\* The first line of text is the marker token and `--path <quoted>`, after
\* the opening of a line comment or nothing
HasPathMarker(text, quoted) ==
    /\ Lines(text) # <<>>
    /\ Lines(text)[1] \in { <<MARKER, "--path", " ", quoted>>,
                            <<"#", " ", MARKER, "--path", " ", quoted>> }

\* C4: a file whose first line is the marker token followed by `--path '<T>'`
\* goes to interpolate(T), and its content is the original content without the
\* first line, the later lines and their line breaks kept.
C4_MarkerRoutes ==
    \A quoted \in { Q1, Q2 } :
        (/\ pc = "returned"
         /\ HasPathMarker(arg.file.contents, quoted)
         /\ Plain(AfterFirstLine(arg.file.contents)))
        => ret = Ok([path |-> Interpolate(Unquote(quoted)),
                     contents |-> AfterFirstLine(arg.file.contents)])

\* C5: the write of a link goes to the root joined with the path of the link
\* and holds the commented marker line (when the link declares a marker), the
\* four commented lines of the header, then the fetched content unchanged.
C5_HeaderThenContent ==
    (pc = "returned" /\ ret.ok) =>
        LET path == PathJoin(arg.rootPath, arg.link.path) IN
        /\ ret.value.path = path
        /\ ret.value.contents =
              (IF arg.link.marker = None THEN <<>>
               ELSE Comment(<<MARKER>> \o arg.link.marker[1], path) \o <<NL>>)
              \o Header(arg.link.url, path)
              \o arg.link.contents

\* No link, no file and no write of the run failed
RunClean ==
    /\ Loads(cwd, dotsToml)
    /\ Failing(LinkResults(manifest)) = <<>>
    /\ Failing(FileResults(manifest, root)) = <<>>
    /\ \A i \in 1..Len(links) : LinkProcess(root, links[i]).ok
    /\ \A i \in 1..Len(files) : DirProcessFile(root, files[i]).ok
    /\ \A i \in 1..Len(applied) : applied[i].outcome = "wrote"

\* C6: the run ends with success exactly when no link, no file and no write
\* failed, and then every write of the run has been applied.
C6_SuccessIffNoFailure ==
    pc = "done" =>
        /\ exit = "ok" <=> RunClean
        /\ exit = "ok" =>
               /\ Len(applied) = Len(writes)
               /\ \A i \in 1..Len(writes) : \E f \in disk : f.path = writes[i].path

\* C7: once the apply stage has begun, every write of the run is attempted,
\* whatever happened to the writes before it.
C7_EveryWriteAttempted ==
    (pc = "done" /\ applied # <<>>) =>
        /\ Len(applied) = Len(writes)
        /\ \A i \in 1..Len(writes) : applied[i].path = writes[i].path

\* C8: when every Dir has been processed, every gathered file has been
\* handled, and the results hold one error for each file that failed.
C8_EveryFileProcessed ==
    (pc = "dir" /\ next > Len(manifest.dirs)) =>
        /\ \A i \in 1..Len(files) : \E k \in 1..Len(processed) : processed[k] = Item("file", i)
        /\ \A i \in 1..Len(links) : \E k \in 1..Len(processed) : processed[k] = Item("link", i)
        /\ Len(Failing(results))
              = Cardinality({ i \in 1..Len(files) : ~DirProcessFile(root, files[i]).ok })

\* C9: a walk error under a declared dir makes World::new return Err.
C9_WalkErrorReported ==
    Gathered =>
        ((\E i \in 1..Len(manifest.dirs) :
              \E j \in 1..Len(WalkDir(manifest.dirs[i].input)) :
                  WalkDir(manifest.dirs[i].input)[j].kind = "error")
            => ~world[1].ok)

\* The directories of start and its ancestors: the prefixes of the path
Ancestors(start) == { SubSeq(start, 1, n) : n \in 1..Len(start) }

\* C10: traverse_upwards yields the start directory, then each parent up to
\* the root of the file system, each once; World::new takes as root the
\* closest of these directories that holds a dots.toml; when there is none,
\* or that dots.toml cannot be read or parsed, it returns one error.
C10_ClosestManifest ==
    cwd # None =>
        LET start == cwd[1]
            holding == { dir \in Ancestors(start) : dotsToml[dir] # "absent" }
        IN  /\ TraverseUpwards(start)
                  = [i \in 1..Len(start) |-> SubSeq(start, 1, Len(start) + 1 - i)]
            /\ (pc # "resolve" /\ holding = {}) =>
                   /\ world # None
                   /\ ~world[1].ok
                   /\ Len(world[1].error) = 1
            /\ (pc # "resolve" /\ holding # {}) =>
                   /\ root \in holding
                   /\ \A dir \in holding : Len(dir) <= Len(root)
            /\ (pc \notin { "resolve", "load" } /\ holding # {}) =>
                   IF dotsToml[root] = "ok" THEN world = None
                   ELSE /\ world # None
                        /\ ~world[1].ok
                        /\ Len(world[1].error) = 1

\* C10 witness: the manifest of the parent of the start directory was taken,
\* although the root of the file system holds one too
C10_Witness ==
    /\ pc = "load"
    /\ cwd = Some(DirAtDepth(MaxDepth))
    /\ root = DirAtDepth(MaxDepth - 1)
    /\ dotsToml[DirAtDepth(0)] # "absent"

(***************************************************************************)
(* A link written by Link::process and gathered again by a later run       *)
(***************************************************************************)
\* The Dir whose input tree holds the destination of the link
HoldingDir(link) == DirDecl(link.path[1][1], <<"{", "data_dir", "}">>)

\* The file World::new hands over for what Link::process wrote
Regathered(rootPath, link, written) ==
    ReadFile(rootPath, 1, HoldingDir(link),
             Entry("file", Tail(link.path), Some(written.contents))).value

\* Dir::process on the file a successful Link::process wrote
Regather ==
    /\ pc = "returned"
    /\ ret.ok
    /\ arg' = [rootPath |-> arg.rootPath, link |-> arg.link,
               file |-> Regathered(arg.rootPath, arg.link, ret.value)]
    /\ ret' = DirProcessFile(arg.rootPath, arg'.file)
    /\ pc' = "regathered"
    /\ UNCHANGED <<previous, cwd, dotsToml, manifest, root, errors, links, files, fetched,
                   visited, world, results, processed, writes, failure, logged,
                   next, applied, disk, exit>>

InitRound == InitCall(LinkCalls)

NextRound ==
    \/ CallLinkProcess
    \/ Regather

SpecRound == InitRound /\ [][NextRound]_vars

\* C11: what Link::process emits for a link that declares the marker text
\* `--path '<T>'`, whatever the comment syntax of its destination, is routed
\* to interpolate(T) when it is processed as a gathered file.
C11_MarkerRoundTrip ==
    (pc = "regathered" /\ arg.link.marker = Some(<<"--path", " ", Q1>>)) =>
        /\ ret.ok
        /\ ret.value.path = Interpolate(Unquote(Q1))

(***************************************************************************)
(* Single calls of OutputPath::from_str, on templates built of pieces      *)
(***************************************************************************)
MaxPieces == 3

\* The names a `{...}` of a template may hold
VariableNames ==
    { <<"config_dir">>, <<"data_dir">>, <<"cache_dir">>, <<"config">>, <<>>,
      <<"$", "XDG_THEMES">>, <<"$", "UNSET">>, <<"$", "BRACED">> }

\* The characters of a template outside its `{...}`
Literals == { "a", "/", "}", "~" }

\* A piece of a template: a character, or a name between braces
Pieces ==
    { [name |-> None, text |-> <<c>>] : c \in Literals }
        \cup { [name |-> Some(n), text |-> <<"{">> \o n \o <<"}">>] : n \in VariableNames }

\* A template: a leading "~/" or none, pieces, and a last "{" that is never
\* closed, or none
Templates ==
    { [tilde |-> tilde, pieces |-> pieces, open |-> open] :
        tilde \in BOOLEAN,
        pieces \in { ps \in BSeq(Pieces, MaxPieces) :
                        ~(Len(ps) >= 2 /\ ps[1].text = <<"~">> /\ ps[2].text = <<"/">>) },
        open \in { None, Some(<<"cache_dir">>), Some(<<"$", "UNSET">>), Some(<<"a", "/">>) } }

\* The string of a template
TemplateString(t) ==
    (IF t.tilde THEN <<"~", "/">> ELSE <<>>)
        \o Concat([i \in 1..Len(t.pieces) |-> t.pieces[i].text])
        \o (IF t.open = None THEN <<>> ELSE <<"{">> \o t.open[1])

InitPath ==
    /\ cwd = None
    /\ dotsToml = Tree("absent", "absent")
    /\ manifest = EmptyManifest
    /\ pc = "call"
    /\ Idle
    /\ arg \in { [template |-> t, available |-> available] :
                    t \in Templates, available \in BOOLEAN }
    /\ ret = <<>>

CallOutputPathFromStr ==
    /\ pc = "call"
    /\ ret' = OutputPathFromStr(TemplateString(arg.template), arg.available)
    /\ pc' = "returned"
    /\ UNCHANGED <<previous, cwd, dotsToml, manifest, root, errors, links, files, fetched,
                   visited, world, results, processed, writes, failure, logged,
                   next, applied, disk, exit, arg>>

NextPath == CallOutputPathFromStr

SpecPath == InitPath /\ [][NextPath]_vars

\* What the name between braces stands for
Replacement(name) ==
    IF name = <<"config_dir">> THEN <<"/", "home", "/", "user", "/", ".config">>
    ELSE IF name = <<"data_dir">>
         THEN <<"/", "home", "/", "user", "/", ".local", "/", "share">>
    ELSE IF name = <<"cache_dir">> THEN <<"/", "home", "/", "user", "/", ".cache">>
    ELSE IF name = <<"$", "XDG_THEMES">> THEN <<"/", "home", "/", "user", "/", "themes">>
    ELSE IF name = <<"$", "BRACED">> THEN <<"{", "x", "}">>
    ELSE <<>>

\* The template with every piece replaced by what it stands for
Replaced(t) ==
    LET rest == Concat([i \in 1..Len(t.pieces) |->
                           IF t.pieces[i].name = None THEN t.pieces[i].text
                           ELSE Replacement(t.pieces[i].name[1])])
                   \o (IF t.open = None THEN <<>> ELSE Replacement(t.open[1]))
        text == TemplateString([t EXCEPT !.tilde = FALSE])
    IN  IF ~t.tilde \/ (text # <<>> /\ text[1] = "/") THEN rest
        ELSE <<"/", "home", "/", "user", "/">> \o rest

HasPlaceholder(s) ==
    \E i \in 1..Len(s) : \E j \in (i + 1)..Len(s) : s[i] = "{" /\ s[j] = "}"

\* C15: a path OutputPath::from_str returns holds no placeholder.
C15_NoPlaceholderLeft ==
    (pc = "returned" /\ ret.ok) => ~HasPlaceholder(PathString(ret.value))

\* The text of the first line after the marker token
AfterMarker(text) ==
    LET first_line == Lines(text)[1] IN
    SubSeq(first_line, IndexFrom(first_line, MARKER, 1) + 1, Len(first_line))

\* The first line of text gives no directive: it does not hold the marker
\* token, or what follows the token has a quote that is never closed, or is
\* not of the `--path <PATH>` schema, or names no path
NoDirective(text) ==
    \/ Lines(text) = <<>>
    \/ ~Contains(Lines(text)[1], MARKER)
    \/ Contains(AfterMarker(text), "'")
    \/ AfterMarker(text) = <<"dots", " ", "--path">>
    \/ AfterMarker(text) = <<"dots">>

\* The destination a Dir gives a file that has no directive
DirDerived(rootPath, file) ==
    PathJoin(file.output, StripPrefix(file.old_location, rootPath).value)

ProcessFails ==
    \/ \E i \in 1..Len(links) : ~LinkProcess(root, links[i]).ok
    \/ \E i \in 1..Len(files) : ~DirProcessFile(root, files[i]).ok

\* C16: when the manifest is not resolved nothing is fetched and nothing is
\* walked; when World::new returns errors, or a gathered link or file fails
\* to be processed, no write of the run is applied.
C16_StagesGate ==
    /\ (world # None /\ ~Loads(cwd, dotsToml)) => (fetched = <<>> /\ visited = <<>>)
    /\ (world # None /\ ~world[1].ok) => (applied = <<>> /\ disk = {})
    /\ (world # None /\ world[1].ok /\ ProcessFails) => (applied = <<>> /\ disk = {})

(***************************************************************************)
(* Applying writes: stdx::write_file and Analysis::finish                  *)
(***************************************************************************)
MaxWrites == 2

\* The operations of the file system a write may take, in the order of use
Steps == <<"remove", "mkdir", "write">>

\* fs::remove_file(path): `faults` holds the steps that meet an I/O error
FsRemoveFile(files_, w) ==
    IF "remove" \in w.faults THEN [files |-> files_, result |-> Err("other")]
    ELSE IF \A f \in files_ : f.path # w.path
         THEN [files |-> files_, result |-> Err("NotFound")]
    ELSE [files |-> { f \in files_ : f.path # w.path }, result |-> Ok(<<>>)]

\* stdx::remove_file: NotFound is no error
RemoveFile(files_, w) ==
    LET removed == FsRemoveFile(files_, w) IN
    IF ~removed.result.ok /\ removed.result.error = "NotFound"
    THEN [removed EXCEPT !.result = Ok(<<>>)]
    ELSE removed

\* fs::create_dir_all(dir)
CreateDirAll(w) == IF "mkdir" \in w.faults THEN Err("other") ELSE Ok(<<>>)

\* fs::write(path, contents)
FsWrite(files_, w) ==
    IF "write" \in w.faults THEN [files |-> files_, result |-> Err("other")]
    ELSE [files |-> { f \in files_ : f.path # w.path }
                       \cup { [path |-> w.path, contents |-> w.contents] },
          result |-> Ok(<<>>)]

\* What applying one write did: the operations attempted, the failures
\* reported, whether "wrote to" was logged, and the file system after it
Trace(steps, reported, done, files_) ==
    [steps |-> steps, reported |-> reported, done |-> done, files |-> files_]

\* stdx::write_file: every step ends with `?`
WriteFile(files_, w) ==
    LET removed == RemoveFile(files_, w)
        written == FsWrite(removed.files, w)
    IN  IF ~removed.result.ok
        THEN Trace(<<"remove">>, <<Error("failed to remove file", <<PathString(w.path)>>)>>,
                   FALSE, removed.files)
        ELSE IF Parent(w.path) = None
        THEN Trace(<<"remove">>, <<Error("failed to obtain parent", <<PathString(w.path)>>)>>,
                   FALSE, removed.files)
        ELSE IF ~CreateDirAll(w).ok
        THEN Trace(<<"remove", "mkdir">>,
                   <<Error("failed to create directory",
                           <<PathString(Parent(w.path)[1])>>)>>,
                   FALSE, removed.files)
        ELSE IF ~written.result.ok
        THEN Trace(<<"remove", "mkdir", "write">>,
                   <<Error("failed to write", <<PathString(w.path)>>)>>,
                   FALSE, written.files)
        ELSE Trace(<<"remove", "mkdir", "write">>, <<>>, TRUE, written.files)

\* One turn of the loop of Analysis::finish: `continue` after a failed remove
\* and a missing parent only
FinishOne(files_, w) ==
    LET removed == RemoveFile(files_, w)
        written == FsWrite(removed.files, w)
    IN  IF ~removed.result.ok
        THEN Trace(<<"remove">>, <<Error("failed to remove file", <<PathString(w.path)>>)>>,
                   FALSE, removed.files)
        ELSE IF Parent(w.path) = None
        THEN Trace(<<"remove">>, <<Error("failed to obtain parent", <<PathString(w.path)>>)>>,
                   FALSE, removed.files)
        ELSE Trace(<<"remove", "mkdir", "write">>,
                   (IF CreateDirAll(w).ok THEN <<>>
                    ELSE <<Error("failed to create directory",
                                 <<PathString(Parent(w.path)[1])>>)>>)
                   \o (IF written.result.ok THEN <<>>
                       ELSE <<Error("failed to write", <<PathString(w.path)>>)>>),
                   TRUE, written.files)

\* Analysis::finish: the traces of the writes, in order
RECURSIVE Finish(_, _)
Finish(files_, ws) ==
    IF ws = <<>> THEN <<>>
    ELSE LET first == FinishOne(files_, ws[1]) IN
         <<first>> \o Finish(first.files, Tail(ws))

\* The writes a call is given, with the faults the file system meets on each
\* (a directory that cannot be created cannot be written into)
FaultyWrites ==
    { [path |-> path, contents |-> <<"new">>, faults |-> faults] :
        path \in { <<RootComponent>>,
                   << RootComponent, <<"out">>, <<"foo", ".txt">> >>,
                   << RootComponent, <<"out">>, <<"bar", ".txt">> >> },
        faults \in { fs \in SUBSET { "remove", "mkdir", "write" } :
                        "mkdir" \in fs => "write" \in fs } }

\* The file systems a call starts from
StartFiles ==
    SUBSET { [path |-> << RootComponent, <<"out">>, <<"foo", ".txt">> >>,
              contents |-> <<"old">>] }

InitWrite ==
    /\ cwd = None
    /\ dotsToml = Tree("absent", "absent")
    /\ manifest = EmptyManifest
    /\ pc = "call"
    /\ Idle
    /\ arg \in { [writes |-> ws, files |-> fs] :
                    ws \in BSeq(FaultyWrites, MaxWrites) \ { <<>> }, fs \in StartFiles }
    /\ ret = <<>>

CallWriteFile ==
    /\ pc = "call"
    /\ Len(arg.writes) = 1
    /\ ret' = <<WriteFile(arg.files, arg.writes[1])>>
    /\ disk' = ret'[1].files
    /\ pc' = "returned"
    /\ UNCHANGED <<previous, cwd, dotsToml, manifest, root, errors, links, files, fetched,
                   visited, world, results, processed, writes, failure, logged,
                   next, applied, exit, arg>>

CallFinish ==
    /\ pc = "call"
    /\ ret' = Finish(arg.files, arg.writes)
    /\ disk' = ret'[Len(ret')].files
    /\ pc' = "finished"
    /\ UNCHANGED <<previous, cwd, dotsToml, manifest, root, errors, links, files, fetched,
                   visited, world, results, processed, writes, failure, logged,
                   next, applied, exit, arg>>

NextWrite ==
    \/ CallWriteFile
    \/ CallFinish

SpecWrite == InitWrite /\ [][NextWrite]_vars

\* C17: applying a write takes remove, mkdir, write in this order; a missing
\* destination counts as removed; a step is attempted only when the one
\* before it succeeded; a step that fails is reported with its own message;
\* and the write is reported as done only when the content was written, the
\* destination then holding the planned content.
C17_OneWrite ==
    pc \in { "returned", "finished" } =>
        \A k \in 1..Len(ret) :
            LET w == arg.writes[k]
                t == ret[k]
                kinds == [i \in 1..Len(t.reported) |-> t.reported[i].kind]
            IN  /\ t.steps = SubSeq(Steps, 1, Len(t.steps))
                /\ t.steps # <<>>
                /\ ("remove" \notin w.faults /\ Parent(w.path) # None) => Len(t.steps) >= 2
                /\ Len(t.steps) >= 2 => "remove" \notin w.faults
                /\ Len(t.steps) = 3 => "mkdir" \notin w.faults
                /\ "remove" \in w.faults => kinds = <<"failed to remove file">>
                /\ (Len(t.steps) >= 2 /\ "mkdir" \in w.faults)
                       => kinds = <<"failed to create directory">>
                /\ (Len(t.steps) = 3 /\ "write" \in w.faults) => kinds = <<"failed to write">>
                /\ t.done =>
                       /\ Len(t.steps) = 3
                       /\ "write" \notin w.faults
                       /\ { f \in t.files : f.path = w.path }
                             = { [path |-> w.path, contents |-> w.contents] }

(***************************************************************************)
(* Two runs of main in a row, on the same manifest and the same network    *)
(***************************************************************************)
\* main is started again after a run that ended with Ok(())
Rerun ==
    /\ pc = "done"
    /\ exit = "ok"
    /\ previous = None
    /\ previous' = Some([writes |-> writes, disk |-> disk])
    /\ pc' = "resolve"
    /\ root' = <<>>
    /\ errors' = <<>>
    /\ links' = <<>>
    /\ files' = <<>>
    /\ fetched' = <<>>
    /\ visited' = <<>>
    /\ world' = None
    /\ results' = <<>>
    /\ processed' = <<>>
    /\ writes' = <<>>
    /\ failure' = <<>>
    /\ logged' = <<>>
    /\ next' = 1
    /\ applied' = <<>>
    /\ exit' = "running"
    /\ UNCHANGED <<cwd, dotsToml, manifest, disk, arg, ret>>

InitTwice ==
    /\ cwd = Some(DirAtDepth(MaxDepth))
    /\ dotsToml = Tree("ok", "absent")
    /\ manifest \in Manifests
    /\ pc = "resolve"
    /\ Idle
    /\ arg = <<>>
    /\ ret = <<>>

NextTwice ==
    \/ ResolveRoot
    \/ LoadConfig
    \/ FetchLink
    \/ LinksFetched
    \/ WalkOneDir
    \/ WorldNewReturn
    \/ ProcessLink
    \/ LinksProcessed
    \/ ProcessDir
    \/ DirsProcessed
    \/ ReportErrors
    \/ ApplyWrite
    \/ Return
    \/ Rerun

SpecTwice == InitTwice /\ [][NextTwice]_vars

\* The writes of a run, as a set
WriteSet(ws) == { ws[i] : i \in 1..Len(ws) }

\* C14: a second run that ends with success right after a first one has the
\* same set of writes as the first and leaves the file system as the first
\* left it.
C14_SecondRunSame ==
    (pc = "done" /\ exit = "ok" /\ previous # None) =>
        /\ WriteSet(writes) = WriteSet(previous[1].writes)
        /\ disk = previous[1].disk

====
